---- MODULE Spec2Model ----
(***************************************************************************)
(* Model of the reactive relation instance layer of inexor-rgf-core-model: *)
(* ReactiveRelationInstance (src/src/reactive_relation_instance.rs), the   *)
(* snapshot RelationInstance (src/src/relation_instance.rs) and the type   *)
(* descriptors EntityType / RelationType (src/src/entity_type.rs,          *)
(* src/src/relation_type.rs).                                              *)
(*                                                                         *)
(* Option<T> is a sequence of length <= 1: None is << >>, Some(x) is <<x>>.*)
(* A String that is parsed as an identifier is a tuple of one-character    *)
(* strings; a serde_json Value is a small integer; a Uuid is a number.     *)
(***************************************************************************)
EXTENDS Integers, Sequences, FiniteSets, TLC

\* ------------------------------------------------------------------ bounds

\* number of threads calling add_property concurrently
NumThreads == 2
\* number of reactive cells (Uuid::new_v4 calls) one run may create
MaxCells == 3
\* longest type name
MaxNameLen == 2
\* longest list of named properties of a persisted edge
MaxProps == 2

\* serde_json values and uuids are opaque to every operation of the model
Values == {0, 1}
Uuids == {1, 2}
Threads == 1..NumThreads
PropertyNames == {"p", "q"}
ComponentNames == {"c", "d"}
BehaviourNames == {"b"}
Descriptions == {"", "text"}

None == << >>
Some(x) == <<x>>

\* ------------------------------------------------------------- identifiers

\* characters a type name is made of: a letter, a dash, a rejected character
Alphabet == {"a", "-", "$"}
IdentifierChars == {"a", "-"}

RECURSIVE SeqsUpTo(_, _)
SeqsUpTo(S, n) ==
    IF n = 0 THEN {<< >>}
    ELSE LET shorter == SeqsUpTo(S, n - 1)
         IN shorter \cup {Append(s, x) : s \in {t \in shorter : Len(t) = n - 1}, x \in S}

TypeNames == SeqsUpTo(Alphabet, MaxNameLen)

\* indradb's Identifier(String) newtype
Identifier(s) == [ident |-> s]
Identifier_to_string(t) == t.ident
Identifier_default == Identifier(<< >>)

Identifier_valid(s) ==
    /\ Len(s) > 0
    /\ Len(s) <= 255
    /\ \A i \in 1..Len(s) : s[i] \in IdentifierChars

\* Identifier::new / Identifier::from_str / Type::from_str: Ok(t) or Err
Identifier_new(s) == IF Identifier_valid(s) THEN Some(Identifier(s)) ELSE None

EdgeKey_new(outbound_id, t, inbound_id) ==
    [outbound_id |-> outbound_id, t |-> t, inbound_id |-> inbound_id]

\* ---------------------------------------------------------- reactive cells

ReactivePropertyInstance_new(id, name, value) ==
    [id |-> id, name |-> name, value |-> value]

Cell_get(cell) == cell.value

\* the cell after the call, and the values it sent to its subscribers
Cell_set(cell, value) ==
    [cell |-> [cell EXCEPT !.value = value], sent |-> <<value>>]

Cell_set_no_propagate(cell, value) ==
    [cell |-> [cell EXCEPT !.value = value], sent |-> << >>]

Cell_tick(cell) ==
    [cell |-> cell, sent |-> <<Cell_get(cell)>>]

\* ------------------------------------------------------------------- state

VARIABLES
    outbound,      \* the outbound ReactiveEntityInstance
    type_name,
    inbound,       \* the inbound ReactiveEntityInstance
    description,
    properties,    \* DashMap<String, ReactivePropertyInstance>
    components,    \* DashSet<String>
    behaviours,    \* DashSet<String>
    nextId,        \* the next Uuid::new_v4()
    pc,            \* per thread: position inside add_property
    local,         \* per thread: the arguments of its add_property call
    last,          \* the most recent call, and what its cells sent on and re-evaluated
    stage,         \* "new" before construction, "live", "converted" after From
    input,         \* the arguments of the constructor
    snap,          \* Option<RelationInstance>: the snapshot instance
    panicked,      \* a call failed fatally
    entity_type,   \* Option<EntityType>
    relation_type, \* Option<RelationType>
    conv           \* the conversion to a snapshot that is under way

vars == <<outbound, type_name, inbound, description, properties, components,
          behaviours, nextId, pc, local, last, stage, input, snap,
          panicked, entity_type, relation_type, conv>>

meta == <<outbound, type_name, inbound, description>>
rest == <<stage, input, snap, panicked, entity_type, relation_type, conv>>

EmptyMap == [n \in {} |-> 0]

MapInsert(m, k, v) == [n \in DOMAIN m \cup {k} |-> IF n = k THEN v ELSE m[n]]

Call(op, name, value, sent, ticked) ==
    [op |-> op, name |-> name, value |-> value, sent |-> sent, ticked |-> ticked]

NoArgs == [name |-> "", value |-> None]

NoInput == [path |-> ""]

\* no conversion to a snapshot is under way
NoConversion == [pc |-> "idle"]

\* a ReactiveEntityInstance, of which the relation reads the id only
Entity(id) == [id |-> id]

\* ------------------------------------------------------------ construction

\* .map(|(name, value)| (name, ReactivePropertyInstance::new(Uuid::new_v4(), name, value))).collect()
\* over a HashMap: one cell per key, each with a fresh id
RECURSIVE CollectMap(_, _, _)
CollectMap(m, todo, id) ==
    IF todo = {} THEN EmptyMap
    ELSE LET n == CHOOSE x \in todo : TRUE
         IN MapInsert(CollectMap(m, todo \ {n}, id + 1), n,
                      ReactivePropertyInstance_new(id, n, m[n]))

create_with_properties(outbound_e, tn, inbound_e, props, id) ==
    [outbound |-> outbound_e,
     type_name |-> tn,
     inbound |-> inbound_e,
     description |-> "",
     properties |-> CollectMap(props, DOMAIN props, id),
     components |-> {},
     behaviours |-> {},
     nextId |-> id + Cardinality(DOMAIN props)]

\* properties.props.iter().map(|named_property| (name, cell)).collect() over the
\* Vec<NamedProperty>: every element mints a cell, a later element of the same
\* name replaces the earlier one in the map
RECURSIVE CollectProps(_, _, _, _)
CollectProps(props, i, id, acc) ==
    IF i > Len(props) THEN acc
    ELSE CollectProps(props, i + 1, id + 1,
            MapInsert(acc, props[i].name,
                ReactivePropertyInstance_new(id, props[i].name, props[i].value)))

from(outbound_e, inbound_e, edge_properties, id) ==
    [outbound |-> outbound_e,
     type_name |-> Identifier_to_string(edge_properties.edge.key.t),
     inbound |-> inbound_e,
     description |-> "",
     properties |-> CollectProps(edge_properties.props, 1, id, EmptyMap),
     components |-> {},
     behaviours |-> {},
     nextId |-> id + Len(edge_properties.props)]

\* a from_instance that starts from an empty description like the other paths
from_instance_no_description(outbound_e, inbound_e, instance, id) ==
    [outbound |-> outbound_e,
     type_name |-> instance.type_name,
     inbound |-> inbound_e,
     description |-> "",
     properties |-> CollectMap(instance.properties, DOMAIN instance.properties, id),
     components |-> {},
     behaviours |-> {},
     nextId |-> id + Cardinality(DOMAIN instance.properties)]

from_instance(outbound_e, inbound_e, instance, id) ==
    [outbound |-> outbound_e,
     type_name |-> instance.type_name,
     inbound |-> inbound_e,
     description |-> instance.description,
     properties |-> CollectMap(instance.properties, DOMAIN instance.properties, id),
     components |-> {},
     behaviours |-> {},
     nextId |-> id + Cardinality(DOMAIN instance.properties)]

PropertyMaps == UNION {[S -> Values] : S \in SUBSET PropertyNames}

Install(r) ==
    /\ outbound = r.outbound
    /\ type_name = r.type_name
    /\ inbound = r.inbound
    /\ description = r.description
    /\ properties = r.properties
    /\ components = r.components
    /\ behaviours = r.behaviours
    /\ nextId = r.nextId

Init ==
    /\ \E props \in PropertyMaps :
         Install(create_with_properties(Entity(1), <<"a">>, Entity(2), props, 1))
    /\ pc = [t \in Threads |-> "idle"]
    /\ local = [t \in Threads |-> NoArgs]
    /\ last = Call("create_with_properties", "", None, {}, EmptyMap)
    /\ stage = "live"
    /\ input = NoInput
    /\ snap = None
    /\ panicked = FALSE
    /\ entity_type = None
    /\ relation_type = None
    /\ conv = NoConversion

\* --------------------------------------------------------------- observers

get(property_name) ==
    IF property_name \in DOMAIN properties
    THEN Some(Cell_get(properties[property_name]))
    ELSE None

is_a(component) == component \in components

behaves_as(behaviour) == behaviour \in behaviours

\* -------------------------------------------------------------- operations

Pending == Cardinality({t \in Threads : pc[t] = "insert"})

\* add_property, first step: if !self.properties.contains_key(name)
add_property_contains_key(t, name, value) ==
    /\ pc[t] = "idle"
    /\ (nextId - 1) + Pending < MaxCells
    /\ IF name \in DOMAIN properties
       THEN UNCHANGED <<pc, local>>
       ELSE /\ pc' = [pc EXCEPT ![t] = "insert"]
            /\ local' = [local EXCEPT ![t] = [name |-> name, value |-> Some(value)]]
    /\ last' = Call("add_property", name, Some(value), {}, EmptyMap)
    /\ UNCHANGED <<meta, rest, properties,
                   components, behaviours, nextId>>

\* add_property, second step: ReactivePropertyInstance::new and self.properties.insert
add_property_insert(t) ==
    /\ pc[t] = "insert"
    /\ properties' = MapInsert(properties, local[t].name,
                        ReactivePropertyInstance_new(nextId, local[t].name, local[t].value[1]))
    /\ nextId' = nextId + 1
    /\ pc' = [pc EXCEPT ![t] = "idle"]
    /\ local' = [local EXCEPT ![t] = NoArgs]
    /\ last' = Call("add_property", local[t].name, local[t].value, {}, EmptyMap)
    /\ UNCHANGED <<meta, rest, components,
                   behaviours>>

add_component(component) ==
    /\ components' = components \cup {component}
    /\ last' = Call("add_component", component, None, {}, EmptyMap)
    /\ UNCHANGED <<meta, rest, properties,
                   behaviours, nextId, pc, local>>

\* a remove_component that empties the set
remove_component_clear(component) ==
    /\ components' = {}
    /\ last' = Call("remove_component", component, None, {}, EmptyMap)
    /\ UNCHANGED <<meta, rest, properties,
                   behaviours, nextId, pc, local>>

remove_component(component) ==
    /\ components' = components \ {component}
    /\ last' = Call("remove_component", component, None, {}, EmptyMap)
    /\ UNCHANGED <<meta, rest, properties,
                   behaviours, nextId, pc, local>>

add_behaviour(behaviour) ==
    /\ behaviours' = behaviours \cup {behaviour}
    /\ last' = Call("add_behaviour", behaviour, None, {}, EmptyMap)
    /\ UNCHANGED <<meta, rest, properties,
                   components, nextId, pc, local>>

remove_behaviour(behaviour) ==
    /\ behaviours' = behaviours \ {behaviour}
    /\ last' = Call("remove_behaviour", behaviour, None, {}, EmptyMap)
    /\ UNCHANGED <<meta, rest, properties,
                   components, nextId, pc, local>>

\* the propagation calls a cell made, as its subscribers record them
Sent(name, sent) == {<<name, sent[i]>> : i \in 1..Len(sent)}

\* a set that inserts a cell when the name is absent
set_upsert(property_name, value) ==
    /\ IF property_name \in DOMAIN properties
       THEN /\ properties' = [properties EXCEPT ![property_name].value = value]
            /\ nextId' = nextId
       ELSE /\ properties' = MapInsert(properties, property_name,
                                ReactivePropertyInstance_new(nextId, property_name, value))
            /\ nextId' = nextId + 1
    /\ last' = Call("set", property_name, Some(value), {<<property_name, value>>}, EmptyMap)
    /\ UNCHANGED <<meta, rest, components, behaviours, pc, local>>

set(property_name, value) ==
    /\ IF property_name \in DOMAIN properties
       THEN LET r == Cell_set(properties[property_name], value)
            IN /\ properties' = [properties EXCEPT ![property_name] = r.cell]
               /\ last' = Call("set", property_name, Some(value),
                               Sent(property_name, r.sent), EmptyMap)
       ELSE /\ UNCHANGED properties
            /\ last' = Call("set", property_name, Some(value), {}, EmptyMap)
    /\ UNCHANGED <<meta, rest, components,
                   behaviours, nextId, pc, local>>

\* a set_no_propagate that delegates to the cell's propagating set
set_no_propagate_propagating(property_name, value) ==
    /\ IF property_name \in DOMAIN properties
       THEN LET r == Cell_set(properties[property_name], value)
            IN /\ properties' = [properties EXCEPT ![property_name] = r.cell]
               /\ last' = Call("set_no_propagate", property_name, Some(value),
                               Sent(property_name, r.sent), EmptyMap)
       ELSE /\ UNCHANGED properties
            /\ last' = Call("set_no_propagate", property_name, Some(value), {}, EmptyMap)
    /\ UNCHANGED <<meta, rest, components,
                   behaviours, nextId, pc, local>>

set_no_propagate(property_name, value) ==
    /\ IF property_name \in DOMAIN properties
       THEN LET r == Cell_set_no_propagate(properties[property_name], value)
            IN /\ properties' = [properties EXCEPT ![property_name] = r.cell]
               /\ last' = Call("set_no_propagate", property_name, Some(value),
                               Sent(property_name, r.sent), EmptyMap)
       ELSE /\ UNCHANGED properties
            /\ last' = Call("set_no_propagate", property_name, Some(value), {}, EmptyMap)
    /\ UNCHANGED <<meta, rest, components,
                   behaviours, nextId, pc, local>>

\* for property_instance in &self.properties { property_instance.tick(); }
RECURSIVE TickLoop(_, _)
TickLoop(todo, acc) ==
    IF todo = {} THEN acc
    ELSE LET n == CHOOSE x \in todo : TRUE
             r == Cell_tick(acc.properties[n])
         IN TickLoop(todo \ {n},
                [properties |-> [acc.properties EXCEPT ![n] = r.cell],
                 sent |-> acc.sent \cup Sent(n, r.sent),
                 ticked |-> MapInsert(acc.ticked, n,
                               IF n \in DOMAIN acc.ticked THEN acc.ticked[n] + 1 ELSE 1)])

\* a tick that stops after the first cell
tick_first_only ==
    /\ LET first == IF properties = EmptyMap THEN {}
                    ELSE {CHOOSE x \in DOMAIN properties : TRUE}
           r == TickLoop(first,
                    [properties |-> properties, sent |-> {}, ticked |-> EmptyMap])
       IN /\ properties' = r.properties
          /\ last' = Call("tick", "", None, r.sent, r.ticked)
    /\ UNCHANGED <<meta, rest, components,
                   behaviours, nextId, pc, local>>

tick ==
    /\ LET r == TickLoop(DOMAIN properties,
                    [properties |-> properties, sent |-> {}, ticked |-> EmptyMap])
       IN /\ properties' = r.properties
          /\ last' = Call("tick", "", None, r.sent, r.ticked)
    /\ UNCHANGED <<meta, rest, components,
                   behaviours, nextId, pc, local>>

Next ==
    \/ \E t \in Threads, n \in PropertyNames, v \in Values : add_property_contains_key(t, n, v)
    \/ \E t \in Threads : add_property_insert(t)
    \/ \E c \in ComponentNames : add_component(c)
    \/ \E c \in ComponentNames : remove_component(c)
    \/ \E b \in BehaviourNames : add_behaviour(b)
    \/ \E b \in BehaviourNames : remove_behaviour(b)
    \/ \E n \in PropertyNames, v \in Values : set(n, v)
    \/ \E n \in PropertyNames, v \in Values : set_no_propagate(n, v)
    \/ tick

Spec == Init /\ [][Next]_vars

\* ------------------------------------------------------- snapshot instance

RelationInstance_new(outbound_id, tn, inbound_id, props) ==
    [outbound_id |-> outbound_id,
     type_name |-> tn,
     inbound_id |-> inbound_id,
     description |-> "",
     properties |-> props]

\* a conversion that reads both endpoint ids from the outbound entity
RelationInstance_from_one_endpoint ==
    [outbound_id |-> outbound.id,
     type_name |-> type_name,
     inbound_id |-> outbound.id,
     description |-> description,
     properties |-> [n \in DOMAIN properties |-> Cell_get(properties[n])]]

\* impl From<Arc<ReactiveRelationInstance>> for RelationInstance
RelationInstance_from ==
    [outbound_id |-> outbound.id,
     type_name |-> type_name,
     inbound_id |-> inbound.id,
     description |-> description,
     properties |-> [n \in DOMAIN properties |-> Cell_get(properties[n])]]

\* RelationInstance::get_key
RelationInstance_get_key(instance) ==
    LET t == Identifier_new(instance.type_name)
    IN IF t # None
       THEN Some(EdgeKey_new(instance.outbound_id, t[1], instance.inbound_id))
       ELSE None

\* a get_key with the endpoints the wrong way round
get_key_swapped ==
    LET t == Identifier_new(type_name)
    IN IF t # None THEN Some(EdgeKey_new(inbound.id, t[1], outbound.id)) ELSE None

\* ReactiveRelationInstance::get_key
get_key ==
    LET t == Identifier_new(type_name)
    IN IF t # None THEN Some(EdgeKey_new(outbound.id, t[1], inbound.id)) ELSE None

\* ------------------------------------- construction, then conversion back

Identifiers == {Identifier(s) : s \in {n \in TypeNames : Identifier_valid(n)}}

NamedProperties == [name : PropertyNames, value : Values]

EdgePropertiesSet ==
    [edge : [key : [outbound_id : Uuids, t : Identifiers, inbound_id : Uuids]],
     props : SeqsUpTo(NamedProperties, MaxProps)]

RelationInstances ==
    [outbound_id : Uuids, type_name : TypeNames, inbound_id : Uuids,
     description : Descriptions, properties : PropertyMaps]

Entities == {Entity(u) : u \in Uuids}

Inputs ==
    [path : {"from"}, outbound : Entities, inbound : Entities,
     properties : EdgePropertiesSet]
    \cup [path : {"from_instance"}, outbound : Entities, inbound : Entities,
          instance : RelationInstances]
    \cup [path : {"create_with_properties"}, outbound : Entities,
          type_name : TypeNames, inbound : Entities, properties : PropertyMaps]

InitConv ==
    /\ input \in Inputs
    /\ stage = "new"
    /\ outbound = Entity(0)
    /\ type_name = << >>
    /\ inbound = Entity(0)
    /\ description = ""
    /\ properties = EmptyMap
    /\ components = {}
    /\ behaviours = {}
    /\ nextId = 1
    /\ pc = [t \in Threads |-> "idle"]
    /\ local = [t \in Threads |-> NoArgs]
    /\ last = Call("", "", None, {}, EmptyMap)
    /\ snap = None
    /\ panicked = FALSE
    /\ entity_type = None
    /\ relation_type = None
    /\ conv = NoConversion

InstallNext(r) ==
    /\ outbound' = r.outbound
    /\ type_name' = r.type_name
    /\ inbound' = r.inbound
    /\ description' = r.description
    /\ properties' = r.properties
    /\ components' = r.components
    /\ behaviours' = r.behaviours
    /\ nextId' = r.nextId

Constructed(path) ==
    /\ stage' = "live"
    /\ last' = Call(path, "", None, {}, EmptyMap)
    /\ UNCHANGED <<pc, local, input, snap, panicked, entity_type, relation_type, conv>>

ConstructFrom ==
    /\ stage = "new"
    /\ input.path = "from"
    /\ InstallNext(from(input.outbound, input.inbound, input.properties, nextId))
    /\ Constructed("from")

ConstructFromInstance ==
    /\ stage = "new"
    /\ input.path = "from_instance"
    /\ InstallNext(from_instance(input.outbound, input.inbound, input.instance, nextId))
    /\ Constructed("from_instance")

ConstructCreateWithProperties ==
    /\ stage = "new"
    /\ input.path = "create_with_properties"
    /\ InstallNext(create_with_properties(input.outbound, input.type_name,
                                          input.inbound, input.properties, nextId))
    /\ Constructed("create_with_properties")

\* let snapshot: RelationInstance = instance.into()
Convert ==
    /\ stage = "live"
    /\ snap' = Some(RelationInstance_from)
    /\ stage' = "converted"
    /\ last' = Call("into", "", None, {}, EmptyMap)
    /\ UNCHANGED <<meta, properties, components, behaviours, nextId, pc, local,
                   input, panicked, entity_type, relation_type, conv>>

NextConv ==
    \/ ConstructFrom
    \/ ConstructFromInstance
    \/ ConstructCreateWithProperties
    \/ stage = "live" /\ \E n \in PropertyNames, v \in Values : set(n, v)
    \/ Convert

SpecConv == InitConv /\ [][NextConv]_vars

\* ------------------------------------------ mutation of a snapshot instance

\* impl From<EdgeProperties> for RelationInstance
RelationInstance_from_edge_properties(edge_properties) ==
    LET props == edge_properties.props
        names == {props[i].name : i \in 1..Len(props)}
        lastOf(n) == CHOOSE i \in 1..Len(props) :
                        /\ props[i].name = n
                        /\ \A j \in (i + 1)..Len(props) : props[j].name # n
    IN [outbound_id |-> edge_properties.edge.key.outbound_id,
        type_name |-> Identifier_to_string(edge_properties.edge.key.t),
        inbound_id |-> edge_properties.edge.key.inbound_id,
        description |-> "",
        properties |-> [n \in names |-> props[lastOf(n)].value]]

\* a setter that inserts like HashMap::insert
RelationInstance_set_insert(instance, property_name, value) ==
    [panic |-> FALSE,
     instance |-> [instance EXCEPT !.properties =
                      MapInsert(instance.properties, property_name, value)]]

\* impl MutablePropertyInstanceSetter for RelationInstance: get_mut(..).unwrap()
\* panics on an absent key, otherwise *property_value = value
RelationInstance_set(instance, property_name, value) ==
    IF property_name \in DOMAIN instance.properties
    THEN [panic |-> FALSE,
          instance |-> [instance EXCEPT !.properties[property_name] = value]]
    ELSE [panic |-> TRUE, instance |-> instance]

\* RelationInstance's PropertyInstanceGetter::get
RelationInstance_get(instance, property_name) ==
    IF property_name \in DOMAIN instance.properties
    THEN Some(instance.properties[property_name])
    ELSE None

InitSnap ==
    /\ snap \in {Some(r) : r \in
            RelationInstances
            \cup {RelationInstance_from_edge_properties(e) : e \in EdgePropertiesSet}
            \cup {RelationInstance_new(o, t, i, m) :
                    o \in Uuids, t \in TypeNames, i \in Uuids, m \in PropertyMaps}}
    /\ stage = "snapshot"
    /\ input = NoInput
    /\ outbound = Entity(0)
    /\ type_name = << >>
    /\ inbound = Entity(0)
    /\ description = ""
    /\ properties = EmptyMap
    /\ components = {}
    /\ behaviours = {}
    /\ nextId = 1
    /\ pc = [t \in Threads |-> "idle"]
    /\ local = [t \in Threads |-> NoArgs]
    /\ last = Call("", "", None, {}, EmptyMap)
    /\ panicked = FALSE
    /\ entity_type = None
    /\ relation_type = None
    /\ conv = NoConversion

snapshot_set(property_name, value) ==
    /\ snap # None
    /\ ~panicked
    /\ LET r == RelationInstance_set(snap[1], property_name, value)
       IN /\ snap' = Some(r.instance)
          /\ panicked' = r.panic
    /\ last' = Call("RelationInstance_set", property_name, Some(value), {}, EmptyMap)
    /\ UNCHANGED <<meta, properties, components, behaviours, nextId, pc, local,
                   stage, input, entity_type, relation_type, conv>>

NextSnap == \E n \in PropertyNames, v \in Values : snapshot_set(n, v)

SpecSnap == InitSnap /\ [][NextSnap]_vars

\* --------------------------------------------------------- type descriptors

\* EntityType::new: Identifier::from_str(name).unwrap()
EntityType_new(name, group, descr, comps) ==
    LET t == Identifier_new(name)
    IN IF t = None
       THEN [panic |-> TRUE, value |-> None]
       ELSE [panic |-> FALSE,
             value |-> Some([name |-> name, group |-> group, description |-> descr,
                             components |-> comps, properties |-> << >>,
                             extensions |-> << >>, t |-> t[1]])]

\* #[derive(Deserialize)] with #[serde(skip)] on t: t is Identifier::default()
EntityType_deserialize(name, group, descr, comps) ==
    [name |-> name, group |-> group, description |-> descr, components |-> comps,
     properties |-> << >>, extensions |-> << >>, t |-> Identifier_default]

\* RelationType::new: Identifier::from_str(type_name).unwrap()
RelationType_new(outbound_type, tn, inbound_type, group, descr, comps) ==
    LET t == Identifier_new(tn)
    IN IF t = None
       THEN [panic |-> TRUE, value |-> None]
       ELSE [panic |-> FALSE,
             value |-> Some([outbound_type |-> outbound_type, type_name |-> tn,
                             full_name |-> tn, inbound_type |-> inbound_type,
                             group |-> group, description |-> descr,
                             components |-> comps, properties |-> << >>,
                             extensions |-> << >>, t |-> t[1]])]

\* #[derive(Deserialize)] with #[serde(skip)] on t: t is Identifier::default()
RelationType_deserialize(outbound_type, tn, full_name, inbound_type, group, descr, comps) ==
    [outbound_type |-> outbound_type, type_name |-> tn, full_name |-> full_name,
     inbound_type |-> inbound_type, group |-> group, description |-> descr,
     components |-> comps, properties |-> << >>, extensions |-> << >>,
     t |-> Identifier_default]

InitType ==
    /\ entity_type = None
    /\ relation_type = None
    /\ conv = NoConversion
    /\ panicked = FALSE
    /\ stage = "types"
    /\ input = NoInput
    /\ snap = None
    /\ outbound = Entity(0)
    /\ type_name = << >>
    /\ inbound = Entity(0)
    /\ description = ""
    /\ properties = EmptyMap
    /\ components = {}
    /\ behaviours = {}
    /\ nextId = 1
    /\ pc = [t \in Threads |-> "idle"]
    /\ local = [t \in Threads |-> NoArgs]
    /\ last = Call("", "", None, {}, EmptyMap)

TypeFrame ==
    UNCHANGED <<meta, properties, components, behaviours, nextId, pc, local,
                stage, input, snap, conv>>

NewEntityType(name, group) ==
    /\ ~panicked
    /\ LET r == EntityType_new(name, group, "", << >>)
       IN /\ panicked' = r.panic
          /\ entity_type' = r.value
    /\ last' = Call("EntityType_new", "", Some(name), {}, EmptyMap)
    /\ UNCHANGED relation_type
    /\ TypeFrame

DeserializeEntityType(name, group) ==
    /\ ~panicked
    /\ entity_type' = Some(EntityType_deserialize(name, group, "", << >>))
    /\ panicked' = FALSE
    /\ last' = Call("EntityType_deserialize", "", Some(name), {}, EmptyMap)
    /\ UNCHANGED relation_type
    /\ TypeFrame

NewRelationType(tn, group) ==
    /\ ~panicked
    /\ LET r == RelationType_new("o", tn, "i", group, "", << >>)
       IN /\ panicked' = r.panic
          /\ relation_type' = r.value
    /\ last' = Call("RelationType_new", "", Some(tn), {}, EmptyMap)
    /\ UNCHANGED entity_type
    /\ TypeFrame

DeserializeRelationType(tn, group) ==
    /\ ~panicked
    /\ relation_type' = Some(RelationType_deserialize("o", tn, "", "i", group, "", << >>))
    /\ panicked' = FALSE
    /\ last' = Call("RelationType_deserialize", "", Some(tn), {}, EmptyMap)
    /\ UNCHANGED entity_type
    /\ TypeFrame

NextType ==
    \/ \E n \in TypeNames, g \in Descriptions : NewEntityType(n, g)
    \/ \E n \in TypeNames, g \in Descriptions : DeserializeEntityType(n, g)
    \/ \E n \in TypeNames, g \in Descriptions : NewRelationType(n, g)
    \/ \E n \in TypeNames, g \in Descriptions : DeserializeRelationType(n, g)

SpecType == InitType /\ [][NextType]_vars

\* ---------------------------- conversion to a snapshot, cell by cell, while
\* ---------------------------- other threads call set and add_property

\* the name-to-value mapping of the instance at this instant
CurrentValues == [n \in DOMAIN properties |-> Cell_get(properties[n])]

\* held, and the value each property's cell holds at this instant
Observed(held) ==
    [n \in PropertyNames |->
        held[n] \cup (IF n \in DOMAIN properties
                      THEN {Cell_get(properties[n])} ELSE {})]

ConvFrame ==
    UNCHANGED <<meta, properties, components, behaviours, nextId, pc, local,
                stage, input, panicked, entity_type, relation_type>>

\* instance.properties.iter(): the iteration over the DashMap starts. todo are
\* the places of the map the iterator has not passed yet; held, start and quiet
\* record what the instance held at the instants of the conversion
into_iter ==
    /\ conv.pc = "idle"
    /\ conv' = [pc |-> "iter",
                todo |-> PropertyNames,
                acc |-> EmptyMap,
                held |-> Observed([n \in PropertyNames |-> {}]),
                start |-> CurrentValues,
                quiet |-> TRUE,
                final |-> EmptyMap]
    /\ last' = Call("into", "", None, {}, EmptyMap)
    /\ UNCHANGED snap
    /\ ConvFrame

\* a conversion step that pairs a key with the value of another cell
into_next_mixed(name) ==
    /\ conv.pc = "iter"
    /\ name \in conv.todo
    /\ LET other == IF DOMAIN properties \ {name} = {} THEN name
                    ELSE CHOOSE m \in DOMAIN properties : m # name
       IN conv' = [conv EXCEPT
                     !.todo = @ \ {name},
                     !.acc = IF name \in DOMAIN properties
                             THEN MapInsert(@, name, Cell_get(properties[other]))
                             ELSE @,
                     !.held = Observed(@),
                     !.quiet = @ /\ CurrentValues = conv.start]
    /\ UNCHANGED <<snap, last>>
    /\ ConvFrame

\* the iterator passes the place of name; a cell that is there is mapped to
\* (property_instance.key().clone(), property_instance.get()), a name that is
\* not in the map at this instant is not in the snapshot
into_next(name) ==
    /\ conv.pc = "iter"
    /\ name \in conv.todo
    /\ conv' = [conv EXCEPT
                  !.todo = @ \ {name},
                  !.acc = IF name \in DOMAIN properties
                          THEN MapInsert(@, name, Cell_get(properties[name]))
                          ELSE @,
                  !.held = Observed(@),
                  !.quiet = @ /\ CurrentValues = conv.start]
    /\ UNCHANGED <<snap, last>>
    /\ ConvFrame

\* collect() is done and RelationInstance { .. } is built from the pairs and
\* the instance's endpoint ids, type name and description
into_collect ==
    /\ conv.pc = "iter"
    /\ conv.todo = {}
    /\ snap' = Some([outbound_id |-> outbound.id,
                     type_name |-> type_name,
                     inbound_id |-> inbound.id,
                     description |-> description,
                     properties |-> conv.acc])
    /\ conv' = [conv EXCEPT
                  !.pc = "done",
                  !.held = Observed(@),
                  !.quiet = @ /\ CurrentValues = conv.start,
                  !.final = CurrentValues]
    /\ UNCHANGED last
    /\ ConvFrame

NextInto ==
    \/ into_iter
    \/ \E n \in PropertyNames : into_next(n)
    \/ into_collect
    \/ \E n \in PropertyNames, v \in Values : set(n, v)
    \/ \E t \in Threads, n \in PropertyNames, v \in Values : add_property_contains_key(t, n, v)
    \/ \E t \in Threads : add_property_insert(t)

SpecInto == Init /\ [][NextInto]_vars

\* ================================================================== claims

\* C1: every add_property step leaves each cell already in the property map in
\* place (first writer wins, never overwrite), and a step that finds its name
\* absent inserts exactly one cell holding its value.
C1_FirstWriterWins ==
    [][\A t \in Threads, name \in PropertyNames, value \in Values :
          (/\ add_property_insert(t)
           /\ local[t].name = name
           /\ local[t].value = Some(value)) =>
             /\ \A n \in DOMAIN properties :
                   n \in DOMAIN properties' /\ properties'[n] = properties[n]
             /\ name \notin DOMAIN properties =>
                   /\ DOMAIN properties' = DOMAIN properties \cup {name}
                   /\ get(name)' = Some(value)]_vars

\* C2: add_component(c) makes is_a(c) true and is a no-op when c is present;
\* remove_component(c) makes is_a(c) false and is a no-op when c is absent;
\* neither changes the membership of another name.
C2_ComponentSet ==
    [][\A c \in ComponentNames :
          /\ add_component(c) =>
                /\ is_a(c)'
                /\ (is_a(c) => components' = components)
                /\ \A d \in ComponentNames \ {c} : is_a(d)' = is_a(d)
          /\ remove_component(c) =>
                /\ ~is_a(c)'
                /\ (~is_a(c) => components' = components)
                /\ \A d \in ComponentNames \ {c} : is_a(d)' = is_a(d)]_vars

C2_Witness ==
    /\ last.op = "add_component"
    /\ is_a(last.name)
    /\ components = ComponentNames

\* the names stored in a persisted edge's list of named properties
PropNames(edge_properties) ==
    {edge_properties.props[i].name : i \in 1..Len(edge_properties.props)}

RoundTripCommon ==
    /\ snap # None
    /\ PropNames(input.properties) \subseteq DOMAIN snap[1].properties
    /\ \A n \in PropNames(input.properties) :
          RelationInstance_get(snap[1], n) = get(n)
    /\ snap[1].type_name = input.properties.edge.key.t.ident

\* C3 as stated: the snapshot of a round trip carries the endpoint ids of the
\* persisted edge's key.
C3_RoundTripEdgeKeyIds ==
    (stage = "converted" /\ input.path = "from") =>
        /\ RoundTripCommon
        /\ snap[1].outbound_id = input.properties.edge.key.outbound_id
        /\ snap[1].inbound_id = input.properties.edge.key.inbound_id

\* C3 amended: the snapshot of a round trip has every property name of the
\* persisted edge with the cell's current value and the edge's stored type
\* name; its endpoint ids are the ids of the entities passed to from.
C3_RoundTrip ==
    (stage = "converted" /\ input.path = "from") =>
        /\ RoundTripCommon
        /\ snap[1].outbound_id = input.outbound.id
        /\ snap[1].inbound_id = input.inbound.id

C3_Witness ==
    /\ stage = "converted"
    /\ input.path = "from"
    /\ Len(input.properties.props) = 2
    /\ input.properties.edge.key.outbound_id = input.outbound.id
    /\ input.properties.edge.key.inbound_id = input.inbound.id
    /\ input.outbound.id # input.inbound.id
    /\ \E n \in PropNames(input.properties) :
          \A i \in 1..Len(input.properties.props) :
             input.properties.props[i].name = n =>
                snap[1].properties[n] # input.properties.props[i].value

\* C4: get_key of the reactive instance and of a snapshot with the same
\* outbound id, type name and inbound id agree; the key is (outbound id,
\* identifier of the type name, inbound id) for a valid type name and absent
\* for an empty type name or one with a rejected character.
C4_GetKey ==
    stage \in {"live", "converted"} =>
        LET same == RelationInstance_new(outbound.id, type_name, inbound.id, EmptyMap)
            rejected == type_name = << >> \/ \E i \in 1..Len(type_name) : type_name[i] = "$"
        IN /\ RelationInstance_get_key(same) = get_key
           /\ (stage = "converted" => RelationInstance_get_key(snap[1]) = get_key)
           /\ rejected => get_key = None
           /\ ~rejected =>
                 /\ get_key # None
                 /\ get_key[1].outbound_id = outbound.id
                 /\ get_key[1].t.ident = type_name
                 /\ get_key[1].inbound_id = inbound.id

C4_Witness ==
    /\ stage = "converted"
    /\ type_name = <<"a", "-">>
    /\ outbound.id # inbound.id
    /\ get_key = Some(EdgeKey_new(1, Identifier(<<"a", "-">>), 2))

\* C5: set and set_no_propagate with a name that is not in the property map
\* change nothing: no cell is inserted, no value, component or behaviour
\* changes, nothing fails, and get of that name is still absent.
C5_SetAbsentIsNoOp ==
    [][\A n \in PropertyNames \ DOMAIN properties, v \in Values :
          (set(n, v) \/ set_no_propagate(n, v)) =>
             /\ properties' = properties
             /\ components' = components
             /\ behaviours' = behaviours
             /\ ~panicked'
             /\ get(n)' = None]_vars

C5_Witness ==
    /\ last.op \in {"set", "set_no_propagate"}
    /\ last.name \notin DOMAIN properties
    /\ DOMAIN properties # {}

\* C6: set on a snapshot fails fatally for a name that is not a key and
\* inserts nothing; for a key it replaces that value only.
C6_SnapshotSet ==
    [][\A n \in PropertyNames, v \in Values :
          snapshot_set(n, v) =>
             IF n \notin DOMAIN snap[1].properties
             THEN /\ panicked'
                  /\ DOMAIN snap'[1].properties = DOMAIN snap[1].properties
                  /\ RelationInstance_get(snap'[1], n) = None
             ELSE /\ ~panicked'
                  /\ DOMAIN snap'[1].properties = DOMAIN snap[1].properties
                  /\ RelationInstance_get(snap'[1], n) = Some(v)
                  /\ \A m \in DOMAIN snap[1].properties \ {n} :
                        snap'[1].properties[m] = snap[1].properties[m]
                  /\ snap'[1].type_name = snap[1].type_name
                  /\ snap'[1].description = snap[1].description
                  /\ snap'[1].outbound_id = snap[1].outbound_id
                  /\ snap'[1].inbound_id = snap[1].inbound_id]_vars

C6_Witness ==
    /\ panicked
    /\ last.op = "RelationInstance_set"
    /\ last.name \notin DOMAIN snap[1].properties
    /\ DOMAIN snap[1].properties # {}

\* the distinct property names of a constructor's input and their values
InputNames ==
    IF input.path = "from" THEN PropNames(input.properties)
    ELSE IF input.path = "from_instance" THEN DOMAIN input.instance.properties
    ELSE DOMAIN input.properties

InputValues(n) ==
    IF input.path = "from"
    THEN {input.properties.props[i].value :
            i \in {j \in 1..Len(input.properties.props) :
                     /\ input.properties.props[j].name = n
                     /\ \A k \in (j + 1)..Len(input.properties.props) :
                           input.properties.props[k].name # n}}
    ELSE IF input.path = "from_instance" THEN {input.instance.properties[n]}
    ELSE {input.properties[n]}

\* C7: right after any of the three constructors the component and behaviour
\* sets are empty, the property map has exactly one cell per distinct input
\* name, named after its key, with its own identity and the input value (for a
\* persisted edge that lists a name twice, the later value); description and
\* type name are those of the path.
C7_Construction ==
    (stage = "live" /\ last.op = input.path) =>
        /\ components = {}
        /\ behaviours = {}
        /\ DOMAIN properties = InputNames
        /\ \A n \in DOMAIN properties :
              /\ properties[n].name = n
              /\ Cell_get(properties[n]) \in InputValues(n)
              /\ \A m \in DOMAIN properties \ {n} : properties[m].id # properties[n].id
        /\ description = (IF input.path = "from_instance"
                          THEN input.instance.description ELSE "")
        /\ type_name = (IF input.path = "from" THEN input.properties.edge.key.t.ident
                        ELSE IF input.path = "from_instance" THEN input.instance.type_name
                        ELSE input.type_name)

C7_Witness ==
    /\ stage = "live"
    /\ last.op = "from_instance"
    /\ DOMAIN properties = PropertyNames
    /\ description = "text"

\* C8: the identifier token of every EntityType and RelationType value is the
\* identifier parsed from its name, and a name that is no identifier yields no
\* value.
C8_TokenInSync ==
    /\ entity_type # None =>
          Some(entity_type[1].t) = Identifier_new(entity_type[1].name)
    /\ relation_type # None =>
          Some(relation_type[1].t) = Identifier_new(relation_type[1].type_name)

\* C9: on a present property, set_no_propagate makes get return the value and
\* sends nothing to any subscriber; set makes get return the value and sends
\* it on; neither touches another cell, the components or the behaviours.
C9_SetPropagation ==
    [][\A n \in DOMAIN properties, v \in Values :
          LET frame == /\ DOMAIN properties' = DOMAIN properties
                       /\ \A m \in DOMAIN properties \ {n} : properties'[m] = properties[m]
                       /\ properties'[n].id = properties[n].id
                       /\ components' = components
                       /\ behaviours' = behaviours
          IN /\ set_no_propagate(n, v) =>
                   /\ get(n)' = Some(v)
                   /\ last'.sent = {}
                         /\ frame
             /\ set(n, v) =>
                   /\ get(n)' = Some(v)
                   /\ last'.sent = {<<n, v>>}
                   /\ frame]_vars

C9_Witness ==
    /\ last.op = "set_no_propagate"
    /\ last.name \in DOMAIN properties
    /\ get(last.name) = Some(1)
    /\ last.sent = {}
    /\ last.value = Some(1)

\* C10: one tick re-evaluates every cell of the instance exactly once and
\* leaves every property value, the key set, the components and the behaviours
\* as they were.
C10_Tick ==
    [][tick =>
          /\ last'.ticked = [n \in DOMAIN properties |-> 1]
          /\ DOMAIN properties' = DOMAIN properties
          /\ \A n \in PropertyNames : get(n)' = get(n)
          /\ \A n \in DOMAIN properties : properties'[n].id = properties[n].id
          /\ components' = components
          /\ behaviours' = behaviours]_vars

C10_Witness ==
    /\ last.op = "tick"
    /\ DOMAIN last.ticked = PropertyNames
    /\ DOMAIN properties = PropertyNames
    /\ components # {}

\* C11: when a conversion that ran beside set and add_property is done, every
\* pair of the snapshot is a value that property's cell held at an instant of
\* the conversion, the snapshot's type name, description and endpoint ids are
\* the instance's, and if the instance held the same mapping at every instant
\* of the conversion the snapshot's property map is exactly that mapping.
C11_ConcurrentSnapshot ==
    conv.pc = "done" =>
        /\ snap # None
        /\ \A n \in DOMAIN snap[1].properties :
              RelationInstance_get(snap[1], n)[1] \in conv.held[n]
        /\ snap[1].type_name = type_name
        /\ snap[1].description = description
        /\ snap[1].outbound_id = outbound.id
        /\ snap[1].inbound_id = inbound.id
        /\ conv.quiet => snap[1].properties = conv.final

\* a snapshot that mixes two instants: it is neither the mapping at the start
\* nor the mapping at the end of the conversion
C11_Witness ==
    /\ conv.pc = "done"
    /\ ~conv.quiet
    /\ DOMAIN snap[1].properties = PropertyNames
    /\ snap[1].properties # conv.start
    /\ snap[1].properties # conv.final

====
